---- MODULE Spec2Model ----
(***************************************************************************)
(* Contact recorder mobile client.                                         *)
(*                                                                         *)
(* Components, each split at its await points:                             *)
(*   - ApiService, the version with the retrying uploadAudio built on      *)
(*     expo-file-system's uploadAsync: token, login, logout, uploadAudio;  *)
(*   - Logger: the bounded log buffer;                                     *)
(*   - StorageService: the stored list of recordings, through              *)
(*     JSON.stringify and JSON.parse;                                      *)
(*   - ApiService of src/services (the session client): authToken and its  *)
(*     copy in AsyncStorage;                                               *)
(*   - LoginScreen and RecordingScreen: logging in and out;                *)
(*   - AudioService: startRecording, stopRecording;                        *)
(*   - RecordingScreen: the contact button, from tap to stored Recording;  *)
(*   - RecordingsListScreen: playRecording and the playing indicator;      *)
(*   - App: the user, the location and the screen shown.                   *)
(*                                                                         *)
(* Spec          one uploadAudio invocation, interleaved with the screens' *)
(*               login and logout calls on the same ApiService             *)
(* SpecLogger    any sequence of Logger.info / warn / error / clearLogs    *)
(* SpecStorage   overlapping saveRecording / getRecordings /               *)
(*               removeRecording calls                                     *)
(* SpecSession   the session client: constructor, login, logout, requests  *)
(* SpecScreens   loadApiLocations, handleLogin and handleLogout            *)
(* SpecAudio     overlapping startRecording / stopRecording calls          *)
(* SpecRecording the contact button and logout on RecordingScreen, with    *)
(*               the AudioService and StorageService calls they make       *)
(* SpecNavigation  SpecRecording, and leaving RecordingScreen for the list *)
(*               of recordings and coming back while an upload is awaited  *)
(* SpecSaves     overlapping saveRecording calls only                      *)
(* SpecList      taps on the play buttons of RecordingsListScreen          *)
(* SpecApp       App: checkExistingAuth, then the screens' callbacks       *)
(* SpecUploadFair, SpecRecordingFair                                       *)
(*               Spec and SpecRecording where every awaited call completes *)
(*                                                                         *)
(* The answers of servers and of the platform (AsyncStorage, expo-av,      *)
(* expo-file-system) are inputs, drawn from small sets at the step that    *)
(* receives them.                                                          *)
(***************************************************************************)
EXTENDS Integers, Sequences, FiniteSets, TLC

VARIABLES
    token,       \* ApiService.token ; NoToken models null
    pc,          \* position of the uploadAudio invocation
    attempt,     \* the loop variable of uploadAudio's for loop
    lastError,   \* uploadAudio's lastError (an Error's message), "" before any
    uriValid,    \* input: recordingData.uri is non-empty and starts with file://
    heldAtCall,  \* whether this.token was truthy when uploadAudio was invoked
    result,      \* how the uploadAudio promise settled
    trace,       \* requests issued / answers received / timers set by uploadAudio
    userLogin,   \* a screen's apiService.login call: "idle" or "pending"
    logs,        \* Logger.logs
    clock,       \* order stamp of Logger entries (new Date() at each addLog)
    appended,    \* history: the entries passed to addLog since the last clearLogs
    stored,      \* AsyncStorage: the item under the key 'recordings'
    storage,     \* the StorageService call of each caller, and its position
    lastWrite,   \* history: the StorageService call whose setItem took effect last
    saveCount,   \* history: number of saveRecording calls made so far
    authToken,   \* services/ApiService (session client): this.authToken
    persisted,   \* AsyncStorage: the item under the key 'authToken'
    nativeQueue, \* AsyncStorage operations issued by the client, not yet performed
    loadPc,      \* position of the constructor's loadAuthToken()
    loadValue,   \* what its getItem resolved to
    authLoginPc, \* the client's login call: "idle" or "pending"
    sent,        \* history: the requests the client has issued
    owed,        \* history: the token of the last successful login, NoToken
                 \* since a logout
    constructed, \* history: number of times the client was constructed
    screen,      \* App: the screen shown, "login" / "recording", or "loggingOut"
                 \* while handleLogout awaits
    bgPc,        \* position of LoginScreen.loadApiLocations
    userPc,      \* position of LoginScreen.handleLogin
    userToken,   \* history: the token returned to the last successful handleLogin
    loggedOut,   \* history: handleLogout has completed and no login has set
                 \* a token since
    isRecording, \* AudioService.isRecording
    recording,   \* AudioService.recording: a platform recording, NoRecording = null
    active,      \* platform recordings created and not yet stopped
    created,     \* number of platform recordings created so far
    audioCalls,  \* the AudioService call of each caller, and its position
    startCalls,  \* history: number of startRecording calls made so far
    files,       \* the local files that exist
    screenIsRecording,  \* RecordingScreen: the state isRecording
    isLoading,          \* RecordingScreen: the state isLoading
    isUploading,        \* RecordingScreen: the state isUploading
    recordingStartTime, \* RecordingScreen: the state recordingStartTime
    contactPc,   \* position of RecordingScreen.handleContactButton
    logoutPc,    \* position of the stop made by RecordingScreen.handleLogout
    flow,        \* the locals of the running stopRecording of the screen
    session,     \* history: the capture session the screen stopped last
    alert,       \* history: the Alert the screen has shown since the last press
                 \* of the contact button
    uploads,     \* the capture sessions whose uploadRecording request is in
                 \* flight
    playingId,   \* RecordingsListScreen: the state playingId, "null" models null
    plays,       \* the playRecording calls that went on to play, and their
                 \* positions
    timers,      \* the 3-second timers set and not yet fired, in the order set
    playingBy,   \* history: the playRecording call that set playingId, 0 if none
    user,        \* App: the state user, NoUser models null
    location,    \* App: the state location, NoLocation models null
    appIsLoading, \* App: the state isLoading
    currentScreen, \* App: the state currentScreen
    checkPc,     \* position of App.checkExistingAuth
    savedUser,   \* checkExistingAuth: what getUser() resolved to
    savedLocation, \* checkExistingAuth: what getSelectedLocation() resolved to
    loginsPending, \* LoginScreen.handleLogin calls that will call onLogin
    logoutsPending, \* confirmed RecordingScreen.handleLogout calls that have
                 \* not called onLogout yet
    taps         \* history: number of login and logout taps so far

apiVars == <<token, pc, attempt, lastError, uriValid, heldAtCall, result, trace,
             userLogin>>

loggerVars == <<logs, clock, appended>>

\* the variables of the components other than ApiService (retrying version)
\* and Logger
storeVars == <<stored, storage, lastWrite, saveCount>>

authVars == <<authToken, persisted, nativeQueue, loadPc, loadValue, authLoginPc,
              sent, owed, constructed>>

screenVars == <<screen, bgPc, userPc, userToken, loggedOut>>

\* the variables of one uploadAudio invocation
uploadVars == <<pc, attempt, lastError, uriValid, heldAtCall, result, trace,
                userLogin>>

audioVars == <<isRecording, recording, active, created, audioCalls, startCalls,
               files>>

recVars == <<screenIsRecording, isLoading, isUploading, recordingStartTime,
             contactPc, logoutPc, flow, session, alert, uploads>>

listVars == <<playingId, plays, timers, playingBy>>

appVars == <<user, location, appIsLoading, currentScreen, checkPc, savedUser,
             savedLocation, loginsPending, logoutsPending, taps>>

extVars == <<storeVars, authVars, screenVars, audioVars, recVars, listVars,
             appVars>>

\* what the steps of StorageService leave alone
notStore == <<apiVars, loggerVars, authVars, screenVars, audioVars, recVars,
              listVars, appVars>>

\* what the steps of the session client leave alone
notAuth == <<apiVars, loggerVars, storeVars, screenVars, audioVars, recVars,
             listVars, appVars>>

\* what the steps of AudioService leave alone
notAudio == <<apiVars, loggerVars, storeVars, authVars, screenVars, recVars,
              listVars, appVars>>

\* what the steps of RecordingsListScreen leave alone
notList == <<apiVars, loggerVars, storeVars, authVars, screenVars, audioVars,
             recVars, appVars>>

\* what the steps of App leave alone
notApp == <<apiVars, loggerVars, storeVars, authVars, screenVars, audioVars,
            recVars, listVars>>

vars == <<apiVars, loggerVars, extVars>>

----------------------------------------------------------------------------
(* Bounds of the model *)

\* Logger calls explored in SpecLogger
MaxAppends == 102

\* only the first MaxVariedLevels entries of a run of SpecLogger vary in level
MaxVariedLevels == 2

\* saveRecording calls explored in SpecStorage
MaxSaves == 2

\* requests of the session client explored in SpecSession
MaxRequests == 3

\* AsyncStorage operations of the session client that may be outstanding
MaxQueued == 2

\* constructions of the session client (application starts) in SpecSession
MaxConstructed == 2

\* startRecording calls explored in SpecAudio
MaxStarts == 2

\* playRecording calls that go on to play
MaxPlays == 3

\* taps on the login button and confirmed logouts
MaxTaps == 3

----------------------------------------------------------------------------
(* Logger *)

maxLogs == 100

\* a slice that starts one element late
SliceLastShort(s, n) ==
    IF Len(s) > n THEN SubSeq(s, Len(s) - n + 2, Len(s)) ELSE s

\* Array.prototype.slice(-n): the last n elements (all of them when fewer)
SliceLast(s, n) ==
    IF Len(s) > n THEN SubSeq(s, Len(s) - n + 1, Len(s)) ELSE s

\* Array.prototype.slice(0, n): the first n elements
SliceFirst(s, n) ==
    IF Len(s) > n THEN SubSeq(s, 1, n) ELSE s

LogEntry(stamp, level, message) ==
    [timestamp |-> stamp, level |-> level, message |-> message]

\* the wrong trimming: keeps the oldest maxLogs entries
addLogKeepOldest(buf, entry) ==
    LET pushed == Append(buf, entry)
    IN  IF Len(pushed) > maxLogs THEN SliceFirst(pushed, maxLogs) ELSE pushed

\* Logger.addLog on buffer buf: push, then trim to the last maxLogs
addLog(buf, entry) ==
    LET pushed == Append(buf, entry)
    IN  IF Len(pushed) > maxLogs THEN SliceLast(pushed, maxLogs) ELSE pushed

RECURSIVE LogAllFrom(_, _, _)
\* a run of logger calls, in call order; calls[i] = <<level, message>>
LogAllFrom(buf, stamp, calls) ==
    IF calls = <<>> THEN buf
    ELSE LogAllFrom(addLog(buf, LogEntry(stamp + 1, Head(calls)[1], Head(calls)[2])),
                    stamp + 1, Tail(calls))

\* the entries of a run of logger calls, in call order
Entries(stamp, calls) ==
    [i \in 1..Len(calls) |-> LogEntry(stamp + i, calls[i][1], calls[i][2])]

\* the logger calls made by one step of ApiService
Emit(calls) ==
    /\ logs' = LogAllFrom(logs, clock, calls)
    /\ clock' = clock + Len(calls)
    /\ appended' = appended \o Entries(clock, calls)

INFO(m) == <<"INFO", m>>
WARN(m) == <<"WARN", m>>
ERROR(m) == <<"ERROR", m>>

\* Logger.info
info ==
    /\ clock < MaxAppends
    /\ logs' = addLog(logs, LogEntry(clock + 1, "INFO", "message"))
    /\ clock' = clock + 1
    /\ appended' = Append(appended, LogEntry(clock + 1, "INFO", "message"))
    /\ UNCHANGED <<apiVars, extVars>>

\* Logger.warn
warn ==
    /\ clock < MaxAppends
    /\ clock < MaxVariedLevels
    /\ logs' = addLog(logs, LogEntry(clock + 1, "WARN", "message"))
    /\ clock' = clock + 1
    /\ appended' = Append(appended, LogEntry(clock + 1, "WARN", "message"))
    /\ UNCHANGED <<apiVars, extVars>>

\* Logger.error
error ==
    /\ clock < MaxAppends
    /\ clock < MaxVariedLevels
    /\ logs' = addLog(logs, LogEntry(clock + 1, "ERROR", "message"))
    /\ clock' = clock + 1
    /\ appended' = Append(appended, LogEntry(clock + 1, "ERROR", "message"))
    /\ UNCHANGED <<apiVars, extVars>>

\* Logger.clearLogs
clearLogs ==
    /\ logs' = <<>>
    /\ appended' = <<>>
    /\ UNCHANGED clock
    /\ UNCHANGED <<apiVars, extVars>>

\* Logger.getLogs: a copy of the buffer
getLogs == logs

----------------------------------------------------------------------------
(* ApiService: data *)

\* this.token = null
NoToken == "null"

\* tokens the server hands out
Tokens == {"tokA", "tokB"}

\* a fetch / uploadAsync that rejects (no HTTP answer): status 0
NetworkFailure == [status |-> 0, body |-> "Network request failed"]

HtmlText == "<html>Bad Gateway</html>"
UploadedText == "{success:true,message:uploaded}"
CreatedText == "{success:true,message:created}"
RejectedText == "{success:false,message:invalid credentials}"
LoginNoTokenText == "{success:true,message:ok}"
LoginText(t) == "{success:true,message:ok,token:" \o t \o "}"

\* JSON.parse / response.json() on the bodies the model uses: ok = FALSE is a
\* SyntaxError; token = NoToken is an absent token field
JSONparse(text) ==
    CASE text = UploadedText ->
           [ok |-> TRUE, success |-> TRUE, message |-> "uploaded", token |-> NoToken]
      [] text = CreatedText ->
           [ok |-> TRUE, success |-> TRUE, message |-> "created", token |-> NoToken]
      [] text = RejectedText ->
           [ok |-> TRUE, success |-> FALSE, message |-> "invalid credentials",
            token |-> NoToken]
      [] text = LoginNoTokenText ->
           [ok |-> TRUE, success |-> TRUE, message |-> "ok", token |-> NoToken]
      [] text \in {LoginText(t) : t \in Tokens} ->
           [ok |-> TRUE, success |-> TRUE, message |-> "ok",
            token |-> CHOOSE t \in Tokens : text = LoginText(t)]
      [] OTHER ->
           [ok |-> FALSE, success |-> FALSE, message |-> "JSON Parse error",
            token |-> NoToken]

\* Response.ok
ResponseOk(status) == status >= 200 /\ status <= 299

\* what the server may answer to POST /api/auth/login
LoginAnswers ==
    {NetworkFailure}
      \cup {[status |-> 200, body |-> LoginText(t)] : t \in Tokens}
      \cup {[status |-> 200, body |-> LoginNoTokenText],
            [status |-> 200, body |-> RejectedText],
            [status |-> 401, body |-> RejectedText],
            [status |-> 200, body |-> HtmlText]}

\* what the server may answer to GET /health
ProbeAnswers ==
    {NetworkFailure,
     [status |-> 200, body |-> "{status:ok}"],
     [status |-> 503, body |-> HtmlText]}

\* what the server may answer to POST /api/recordings/upload
UploadAnswers ==
    {NetworkFailure,
     [status |-> 200, body |-> UploadedText],
     [status |-> 299, body |-> CreatedText],
     [status |-> 200, body |-> RejectedText],
     [status |-> 200, body |-> HtmlText],
     [status |-> 300, body |-> HtmlText],
     [status |-> 401, body |-> RejectedText]}

\* how a promise settled: kind is "none" (pending), "return" or "throw";
\* for "throw", message is the Error's message
Pending == [kind |-> "none", success |-> FALSE, message |-> ""]
Returned(success, message) ==
    [kind |-> "return", success |-> success, message |-> message]
Thrown(message) == [kind |-> "throw", success |-> FALSE, message |-> message]

\* where an async function that settled with res stands
Settled(res) == IF res.kind = "throw" THEN "thrown" ELSE "returned"

\* ApiService.request: fetch, throw unless response.ok, then response.json()
request(answer) ==
    IF answer.status = 0 THEN Thrown(answer.body)
    ELSE IF ~ResponseOk(answer.status)
         THEN Thrown("HTTP error! status: " \o ToString(answer.status))
    ELSE LET parsed == JSONparse(answer.body)
         IN  IF parsed.ok THEN Returned(parsed.success, parsed.message)
             ELSE Thrown(parsed.message)

\* ApiService.login, the token after it: setToken when success and token
TokenAfterLogin(tok, answer) ==
    LET parsed == JSONparse(answer.body)
    IN  IF request(answer).kind = "return" /\ parsed.success /\ parsed.token # NoToken
        THEN parsed.token
        ELSE tok

\* one entry of trace
Ev(ev, n, num, text) == [ev |-> ev, n |-> n, num |-> num, text |-> text]

----------------------------------------------------------------------------
(* ApiService.uploadAudio, the retrying version *)

maxRetries == 3

\* the fallback credential pair of the implicit login
FallbackCredentials == "admin/admin123"

\* if (!this.token): always logs in
NeedsLoginAlways(tok) == TRUE

\* if (!this.token)
NeedsLogin(tok) == tok = NoToken

\* one attempt too many
MoreAttemptsOffByOne(n) == n <= maxRetries

\* after a failed attempt n: attempt < maxRetries waits and retries; at
\* attempt = maxRetries no wait is made and attempt++ ends the for loop
MoreAttempts(n) == n < maxRetries

\* a constant delay
BackoffDelayConstant(n) == 2000

\* const delay = attempt * 2000
BackoffDelay(n) == n * 2000

\* the probe's status is ignored
ProbeOkAlways(answer) == answer.status # 0

\* healthCheck.ok, for a fetch that resolved
ProbeOk(answer) == ResponseOk(answer.status)

\* a status test that lets 3xx and 4xx through
IsSuccessStatusLoose(status) == status >= 200 /\ status < 500

\* uploadResult.status >= 200 && uploadResult.status < 300
IsSuccessStatus(status) == status >= 200 /\ status < 300

\* the parsed body is dropped for a message of the client's own
ParseFailureGeneric(parsed) ==
    IF parsed.ok THEN Returned(TRUE, "uploaded")
    ELSE Thrown("Server response parse error")

\* a success body that does not parse is reported as a generic success
ParseFailureTolerated(parsed) ==
    IF parsed.ok THEN Returned(parsed.success, parsed.message)
    ELSE Returned(TRUE, "uploaded")

\* try { return JSON.parse(body) } catch { throw new Error(parse error) }
\* ('Ошибка парсинга ответа сервера')
ParseFailure(parsed) ==
    IF parsed.ok THEN Returned(parsed.success, parsed.message)
    ELSE Thrown("Server response parse error")

\* what the body of the try block makes of the answer to uploadAsync
UploadOutcome(answer) ==
    IF answer.status = 0 THEN Thrown(answer.body)
    ELSE IF IsSuccessStatus(answer.status) THEN ParseFailure(JSONparse(answer.body))
    ELSE Thrown("HTTP " \o ToString(answer.status) \o ": " \o answer.body)

\* the failure is handed back as a result
ExhaustedReturns(err) == Returned(FALSE, err)

\* after the loop: throw lastError
Exhausted(err) == Thrown(err)

\* the failed login is rethrown
AuthFailureThrows(err) == Thrown("Authorization error: " \o err)

\* the implicit login failed: return { success: false, message: 'Ошибка
\* авторизации: ' + authError.message }
AuthFailure(err) == Returned(FALSE, "Authorization error: " \o err)

\* catch (error) of attempt n, reached in a step that has made the logger
\* calls `calls` and extended the trace to tr
CatchHandler(n, err, calls, tr) ==
    /\ attempt' = n
    /\ lastError' = err
    /\ IF MoreAttempts(n)
       THEN /\ pc' = "delay"
            /\ result' = result
            /\ trace' = tr \o <<Ev("fail", n, 0, err),
                                Ev("delay", n, BackoffDelay(n), "")>>
            /\ Emit(calls \o <<ERROR("attempt " \o ToString(n) \o " failed"),
                               INFO("waiting " \o ToString(BackoffDelay(n)) \o "ms")>>)
       ELSE /\ pc' = Settled(Exhausted(err))
            /\ result' = Exhausted(err)
            /\ trace' = tr \o <<Ev("fail", n, 0, err)>>
            /\ Emit(calls \o <<ERROR("attempt " \o ToString(n) \o " failed"),
                               ERROR("all upload attempts failed")>>)

\* the body of the for loop for attempt n, up to its first await (the probe)
AttemptStart(n, uriOk, calls, tr) ==
    LET begun == calls \o <<INFO("upload attempt " \o ToString(n) \o "/"
                                   \o ToString(maxRetries)),
                            INFO("checking the audio file")>>
    IN  IF uriOk
        THEN /\ attempt' = n
             /\ pc' = "probe"
             /\ UNCHANGED <<lastError, result>>
             /\ trace' = tr \o <<Ev("attempt", n, 0, ""), Ev("probe", n, 0, "")>>
             /\ Emit(begun \o <<INFO("file URI checked"), INFO("sending data")>>)
        ELSE CatchHandler(n, "Invalid file URI",
                          begun \o <<ERROR("file URI check failed")>>,
                          tr \o <<Ev("attempt", n, 0, "")>>)

\* uploadAudio is invoked: up to the await of login, or of the first probe
uploadAudio ==
    /\ pc = "idle"
    /\ UNCHANGED extVars
    /\ \E uriOk \in BOOLEAN :
         /\ uriValid' = uriOk
         /\ heldAtCall' = (token # NoToken)
         /\ UNCHANGED <<token, userLogin>>
         /\ IF NeedsLogin(token)
            THEN /\ pc' = "login"
                 /\ trace' = <<Ev("login", 0, 0, FallbackCredentials)>>
                 /\ UNCHANGED <<attempt, lastError, result>>
                 /\ Emit(<<INFO("starting audio upload"),
                           WARN("no authorization token, logging in")>>)
            ELSE AttemptStart(1, uriOk,
                              <<INFO("starting audio upload"),
                                INFO("authorization token present")>>, <<>>)

\* the implicit login settles
LoginResponds ==
    /\ pc = "login"
    /\ UNCHANGED extVars
    /\ \E answer \in LoginAnswers :
         LET response == request(answer)
             tr == Append(trace, Ev("loginResp", 0, answer.status, answer.body))
         IN  /\ token' = TokenAfterLogin(token, answer)
             /\ UNCHANGED <<uriValid, heldAtCall, userLogin>>
             /\ IF response.kind = "return" /\ response.success
                THEN AttemptStart(1, uriValid, <<INFO("logged in for the upload")>>, tr)
                ELSE /\ result' = AuthFailure(IF response.kind = "throw"
                                              THEN response.message
                                              ELSE "could not log in for the upload")
                     /\ pc' = Settled(result')
                     /\ trace' = tr
                     /\ UNCHANGED <<attempt, lastError>>
                     /\ Emit(<<ERROR("authorization error")>>)

\* the probe (GET /health) settles
ProbeResponds ==
    /\ pc = "probe"
    /\ UNCHANGED extVars
    /\ \E answer \in ProbeAnswers :
         LET tr == Append(trace, Ev("probeResp", attempt, answer.status, ""))
         IN  /\ UNCHANGED <<token, uriValid, heldAtCall, userLogin>>
             /\ IF answer.status = 0
                THEN CatchHandler(attempt, answer.body, <<>>, tr)
                ELSE IF ~ProbeOk(answer)
                THEN CatchHandler(attempt,
                                  "Server health check failed: " \o ToString(answer.status),
                                  <<>>, tr)
                ELSE /\ pc' = "upload"
                     /\ UNCHANGED <<attempt, lastError, result>>
                     /\ trace' = Append(tr, Ev("upload", attempt, 0,
                                               IF token # NoToken
                                               THEN "Bearer " \o token ELSE ""))
                     /\ Emit(<<INFO("server available, sending the file"),
                               INFO("checking the data"),
                               INFO("sending through uploadAsync"),
                               INFO("upload parameters")>>)

\* FileSystem.uploadAsync settles
UploadResponds ==
    /\ pc = "upload"
    /\ UNCHANGED extVars
    /\ \E answer \in UploadAnswers :
         LET tr == Append(trace, Ev("uploadResp", attempt, answer.status, answer.body))
             outcome == UploadOutcome(answer)
             seen == IF answer.status = 0 THEN <<>> ELSE <<INFO("uploadAsync answered")>>
             said == IF answer.status = 0 THEN <<>>
                     ELSE IF outcome.kind = "return" THEN <<INFO("server accepted")>>
                     ELSE IF IsSuccessStatus(answer.status)
                          THEN <<ERROR("answer does not parse")>>
                     ELSE <<ERROR("HTTP error")>>
         IN  /\ UNCHANGED <<token, uriValid, heldAtCall, userLogin>>
             /\ IF outcome.kind = "return"
                THEN /\ pc' = "returned"
                     /\ result' = outcome
                     /\ trace' = tr
                     /\ UNCHANGED <<attempt, lastError>>
                     /\ Emit(seen \o said)
                ELSE CatchHandler(attempt, outcome.message, seen \o said, tr)

\* the backoff timer fires: attempt++ and the next pass of the loop
DelayElapses ==
    /\ pc = "delay"
    /\ UNCHANGED extVars
    /\ UNCHANGED <<token, uriValid, heldAtCall, userLogin>>
    /\ AttemptStart(attempt + 1, uriValid, <<>>, trace)

\* a screen calls apiService.login(username, password): the request leaves
login ==
    /\ userLogin = "idle"
    /\ userLogin' = "pending"
    /\ UNCHANGED <<token, pc, attempt, lastError, uriValid, heldAtCall, result,
                   trace, loggerVars, extVars>>

\* the screen's login settles: setToken on success with a token
loginSettles ==
    /\ userLogin = "pending"
    /\ \E answer \in LoginAnswers : token' = TokenAfterLogin(token, answer)
    /\ userLogin' = "idle"
    /\ UNCHANGED <<pc, attempt, lastError, uriValid, heldAtCall, result, trace,
                   loggerVars, extVars>>

\* ApiService.logout: clearToken
logout ==
    /\ token # NoToken
    /\ token' = NoToken
    /\ UNCHANGED <<pc, attempt, lastError, uriValid, heldAtCall, result, trace,
                   userLogin, loggerVars, extVars>>

----------------------------------------------------------------------------
(* JavaScript values, JSON.stringify and JSON.parse *)

Str(s) == [t |-> "string", v |-> s]
Num(n) == [t |-> "number", v |-> n]
Bool(b) == [t |-> "boolean", v |-> b]
\* a Date, by its time value in milliseconds
Date(ms) == [t |-> "Date", v |-> ms]
Undefined == [t |-> "undefined", v |-> 0]

\* Date.prototype.toISOString (the text of the instant; one text per instant)
toISOString(d) == Str("T" \o ToString(d.v) \o "Z")

\* obj.k ; undefined when the object has no such property
Field(obj, k) == IF k \in DOMAIN obj THEN obj[k] ELSE Undefined

\* a serialisation that also leaves out the properties holding false
JSONvalueDropFalse(obj) ==
    LET kept == {k \in DOMAIN obj : obj[k] # Undefined /\ obj[k] # Bool(FALSE)}
    IN  [k \in kept |-> IF obj[k].t = "Date" THEN toISOString(obj[k]) ELSE obj[k]]

\* the JSON value of an object: properties holding undefined are left out,
\* a Date is written as its toJSON() = toISOString() text
JSONvalue(obj) ==
    LET kept == {k \in DOMAIN obj : obj[k] # Undefined}
    IN  [k \in kept |-> IF obj[k].t = "Date" THEN toISOString(obj[k]) ELSE obj[k]]

\* JSON.stringify of an array of objects: the text, by the values it denotes
JSONstringify(list) ==
    [present |-> TRUE, json |-> [i \in 1..Len(list) |-> JSONvalue(list[i])]]

\* JSON.parse of such a text: strings stay strings (no Date is revived)
JSONparseList(text) == text.json

----------------------------------------------------------------------------
(* StorageService: the stored list of recordings *)

\* AsyncStorage.getItem resolves to null: no item under the key
NoItem == [present |-> FALSE, json |-> <<>>]

StorageCallers == {"screen", "list"}

NoCall == [op |-> "none", pc |-> "idle", arg |-> Undefined, list |-> <<>>,
           ret |-> <<>>, ok |-> TRUE, readOk |-> TRUE, saw |-> [op |-> "none"]]

\* the Recording objects passed to saveRecording, but for their id
RecordingInputs ==
    { [userId |-> Str("u1"), locationId |-> Str("loc1"),
       startTime |-> Date(1000), endTime |-> Date(4000),
       audioFilePath |-> Str("file:///cache/rec.m4a"), duration |-> Num(3000),
       synced |-> Bool(TRUE), serverId |-> Num(7)],
      [userId |-> Str("u1"), locationId |-> Str("loc1"),
       startTime |-> Date(5000), endTime |-> Undefined,
       audioFilePath |-> Str("file:///documents/rec.m4a"), duration |-> Num(1000),
       synced |-> Bool(FALSE)] }

WithId(obj, id) ==
    [k \in DOMAIN obj \cup {"id"} |-> IF k = "id" THEN Str(id) ELSE obj[k]]

\* [recording, ...recordings]
PrependRecording(recordings, item) == <<item>> \o recordings

\* [...recordings, recording]
AppendRecording(recordings, item) == Append(recordings, item)

\* recordings.filter(r => r.id !== recordingId)
FilterRecording(recordings, recordingId) ==
    SelectSeq(recordings, LAMBDA r : Field(r, "id") # recordingId)

\* recordingsData ? JSON.parse(recordingsData) : []
ParseStored(recordingsData) ==
    IF recordingsData.present THEN JSONparseList(recordingsData) ELSE <<>>

\* a caller starts a StorageService call: up to its await of getItem
Invoke(c, op, arg) ==
    /\ storage[c].pc \in {"idle", "done"}
    /\ storage' = [storage EXCEPT ![c] =
                     [op |-> op, pc |-> "getItem", arg |-> arg, list |-> <<>>,
                      ret |-> <<>>, ok |-> TRUE, readOk |-> TRUE,
                      saw |-> [op |-> "none"]]]

\* StorageService.saveRecording(recording) is called
saveRecording ==
    /\ saveCount < MaxSaves
    /\ \E c \in StorageCallers, obj \in RecordingInputs :
         Invoke(c, "save", WithId(obj, ToString(saveCount + 1)))
    /\ saveCount' = saveCount + 1
    /\ UNCHANGED <<stored, lastWrite, notStore>>

\* StorageService.getRecordings() is called
getRecordings ==
    /\ \E c \in StorageCallers : Invoke(c, "get", Undefined)
    /\ UNCHANGED <<stored, lastWrite, saveCount, notStore>>

\* StorageService.removeRecording(recordingId) is called
removeRecording ==
    /\ \E c \in StorageCallers, n \in 1..saveCount :
         Invoke(c, "remove", Str(ToString(n)))
    /\ UNCHANGED <<stored, lastWrite, saveCount, notStore>>

\* AsyncStorage.getItem settles inside getRecordings: the list is parsed, or
\* the catch returns [] ; saveRecording and removeRecording go on to setItem
GetItemSettles(c) ==
    /\ storage[c].pc = "getItem"
    /\ \E ok \in BOOLEAN :
         LET call == storage[c]
             recordings == IF ok THEN ParseStored(stored) ELSE <<>>
         IN  storage' = [storage EXCEPT ![c] =
               CASE call.op = "get" ->
                      [call EXCEPT !.pc = "done", !.ret = recordings, !.ok = ok,
                                   !.readOk = ok, !.saw = lastWrite]
                 [] call.op = "save" ->
                      [call EXCEPT !.pc = "setItem", !.readOk = ok,
                                   !.list = AppendRecording(recordings, call.arg)]
                 [] OTHER ->
                      [call EXCEPT !.pc = "setItem", !.readOk = ok,
                                   !.list = FilterRecording(recordings, call.arg)]]
    /\ UNCHANGED <<stored, lastWrite, saveCount>>

\* AsyncStorage.setItem settles: the item is replaced, or the catch logs
SetItemSettles(c) ==
    /\ storage[c].pc = "setItem"
    /\ \E ok \in BOOLEAN :
         LET call == storage[c]
         IN  /\ storage' = [storage EXCEPT ![c] = [call EXCEPT !.pc = "done", !.ok = ok]]
             /\ stored' = IF ok THEN JSONstringify(call.list) ELSE stored
             /\ lastWrite' = IF ok THEN [op |-> call.op, arg |-> call.arg]
                             ELSE lastWrite
    /\ UNCHANGED saveCount

getItemSettles ==
    /\ \E c \in StorageCallers : GetItemSettles(c)
    /\ UNCHANGED notStore

setItemSettles ==
    /\ \E c \in StorageCallers : SetItemSettles(c)
    /\ UNCHANGED notStore

----------------------------------------------------------------------------
(* ApiService of src/services: the session client, its token mirrored into *)
(* AsyncStorage                                                            *)

\* if (this.authToken) headers.Authorization = `Bearer ${this.authToken}`
AuthorizationHeader(tok) == IF tok # NoToken THEN "Bearer " \o tok ELSE ""

\* makeRequest: fetch, response.json(), then throw unless response.ok
makeRequestResult(answer) ==
    IF answer.status = 0 THEN Thrown(answer.body)
    ELSE LET data == JSONparse(answer.body)
         IN  IF ~data.ok THEN Thrown(data.message)
             ELSE IF ~ResponseOk(answer.status) THEN Thrown(data.message)
             ELSE Returned(data.success, data.message)

\* login: the token to set, NoToken when setAuthToken is not called
LoginSetsToken(answer) ==
    LET data == JSONparse(answer.body)
    IN  IF makeRequestResult(answer).kind = "return" /\ data.success
           /\ data.token # NoToken
        THEN data.token
        ELSE NoToken

\* a request leaves, with the headers built from this.authToken
Issue(kind) ==
    /\ Len(sent) < MaxRequests
    /\ sent' = Append(sent, [kind |-> kind,
                             auth |-> AuthorizationHeader(authToken),
                             owed |-> owed])

\* constructor: the application starts and loadAuthToken() asks for the item
construct ==
    /\ constructed < MaxConstructed
    /\ nativeQueue = <<>>
    /\ loadPc = "done"
    /\ authLoginPc = "idle"
    /\ constructed' = constructed + 1
    /\ authToken' = NoToken
    /\ nativeQueue' = <<[op |-> "getItem", value |-> NoToken]>>
    /\ loadPc' = "getItem"
    /\ loadValue' = NoToken
    /\ owed' = NoToken
    /\ UNCHANGED <<persisted, authLoginPc, sent, notAuth>>

\* AsyncStorage performs the oldest outstanding operation
AsyncStoragePerforms ==
    /\ nativeQueue # <<>>
    /\ nativeQueue' = Tail(nativeQueue)
    /\ LET head == Head(nativeQueue)
       IN  CASE head.op = "getItem" ->
                  /\ \E ok \in BOOLEAN :
                       /\ loadPc' = IF ok THEN "resolved" ELSE "rejected"
                       /\ loadValue' = IF ok THEN persisted ELSE loadValue
                  /\ UNCHANGED persisted
             [] head.op = "setItem" ->
                  /\ persisted' = head.value
                  /\ UNCHANGED <<loadPc, loadValue>>
             [] OTHER ->
                  /\ persisted' = NoToken
                  /\ UNCHANGED <<loadPc, loadValue>>
    /\ UNCHANGED <<authToken, authLoginPc, sent, owed, constructed, notAuth>>

\* loadAuthToken resumes after its await: the assignment, or the catch
loadAuthToken ==
    /\ loadPc \in {"resolved", "rejected"}
    /\ loadPc' = "done"
    /\ authToken' = IF loadPc = "resolved" THEN loadValue ELSE authToken
    /\ UNCHANGED <<persisted, nativeQueue, loadValue, authLoginPc, sent, owed,
                   constructed, notAuth>>

\* this.authToken = token; AsyncStorage.setItem('authToken', token)
setAuthToken(tok) ==
    /\ authToken' = tok
    /\ nativeQueue' = Append(nativeQueue, [op |-> "setItem", value |-> tok])

\* this.authToken = null; AsyncStorage.removeItem('authToken')
clearAuthToken ==
    /\ authToken' = NoToken
    /\ nativeQueue' = Append(nativeQueue, [op |-> "removeItem", value |-> NoToken])

\* login(username, password) is called: the request leaves
authLogin ==
    /\ authLoginPc = "idle"
    /\ authLoginPc' = "pending"
    /\ Issue("login")
    /\ UNCHANGED <<authToken, persisted, nativeQueue, loadPc, loadValue, owed,
                   constructed, notAuth>>

\* login settles: setAuthToken when the answer has success and a token
authLoginSettles ==
    /\ authLoginPc = "pending"
    /\ Len(nativeQueue) < MaxQueued
    /\ authLoginPc' = "idle"
    /\ \E answer \in LoginAnswers :
         IF LoginSetsToken(answer) # NoToken
         THEN /\ setAuthToken(LoginSetsToken(answer))
              /\ owed' = LoginSetsToken(answer)
         ELSE UNCHANGED <<authToken, nativeQueue, owed>>
    /\ UNCHANGED <<persisted, loadPc, loadValue, sent, constructed, notAuth>>

\* logout()
authLogout ==
    /\ Len(nativeQueue) < MaxQueued
    /\ clearAuthToken
    /\ owed' = NoToken
    /\ UNCHANGED <<persisted, loadPc, loadValue, authLoginPc, sent, constructed,
                   notAuth>>

\* getProfile / getLocations / getRecordings / ... : a request through
\* makeRequest leaves
makeRequest ==
    /\ Issue("json")
    /\ UNCHANGED <<authToken, persisted, nativeQueue, loadPc, loadValue,
                   authLoginPc, owed, constructed, notAuth>>

\* uploadAudio of the session client: its fetch leaves
authUploadAudio ==
    /\ Issue("upload")
    /\ UNCHANGED <<authToken, persisted, nativeQueue, loadPc, loadValue,
                   authLoginPc, owed, constructed, notAuth>>

----------------------------------------------------------------------------
(* LoginScreen and RecordingScreen: logging in and out                     *)
(* LoginScreen imports apiService from '../../services/ApiService' (the    *)
(* client holding `token`), RecordingScreen from '../services/ApiService'  *)
(* (the session client holding `authToken`): two modules, two instances.   *)

\* useEffect of LoginScreen: loadApiLocations() starts, its login leaves
loadApiLocations ==
    /\ screen = "login"
    /\ bgPc = "start"
    /\ bgPc' = "login"
    /\ UNCHANGED <<screen, userPc, userToken, loggedOut, apiVars, loggerVars,
                   storeVars, authVars, audioVars, recVars, listVars, appVars>>

\* apiService.login('продавец1', '123456') settles
LocationsLoginSettles ==
    /\ bgPc = "login"
    /\ \E answer \in LoginAnswers :
         /\ token' = TokenAfterLogin(token, answer)
         /\ bgPc' = IF request(answer).kind = "return" /\ request(answer).success
                    THEN "locations" ELSE "done"
         /\ loggedOut' = (loggedOut /\ token' = token)
    /\ UNCHANGED <<screen, userPc, userToken, uploadVars, loggerVars, storeVars,
                   authVars, audioVars, recVars, listVars, appVars>>

\* apiService.getLocations() settles: clearToken() unless it threw
LocationsSettle ==
    /\ bgPc = "locations"
    /\ bgPc' = "done"
    /\ \E answer \in ProbeAnswers :
         token' = IF request(answer).kind = "return" THEN NoToken ELSE token
    /\ UNCHANGED <<screen, userPc, userToken, loggedOut, uploadVars, loggerVars,
                   storeVars, authVars, audioVars, recVars, listVars, appVars>>

\* handleLogin with a user name, a password and a location: its login leaves
\* (the screen has mounted, so its effect has started loadApiLocations)
handleLogin ==
    /\ screen = "login"
    /\ bgPc # "start"
    /\ userPc = "idle"
    /\ userPc' = "login"
    /\ UNCHANGED <<screen, bgPc, userToken, loggedOut, apiVars, loggerVars,
                   storeVars, authVars, audioVars, recVars, listVars, appVars>>

\* apiService.login(username, password) settles in handleLogin: on success
\* the user is saved; when it threw, the DEMO_USERS fallback may accept
HandleLoginSettles ==
    /\ userPc = "login"
    /\ \E answer \in LoginAnswers, isValidUser \in BOOLEAN :
         LET response == request(answer)
         IN  /\ token' = TokenAfterLogin(token, answer)
             /\ loggedOut' = (loggedOut /\ token' = token)
             /\ IF response.kind = "return"
                THEN /\ userPc' = IF response.success THEN "saving" ELSE "idle"
                     /\ userToken' = IF response.success
                                     THEN JSONparse(answer.body).token
                                     ELSE userToken
                ELSE /\ userPc' = IF isValidUser THEN "saving" ELSE "idle"
                     /\ userToken' = IF isValidUser THEN NoToken ELSE userToken
    /\ UNCHANGED <<screen, bgPc, uploadVars, loggerVars, storeVars, authVars,
                   audioVars, recVars, listVars, appVars>>

\* saveUser and saveSelectedLocation have settled: onLogin(user, location)
onLogin ==
    /\ userPc = "saving"
    /\ userPc' = "idle"
    /\ screen' = "recording"
    /\ UNCHANGED <<bgPc, userToken, loggedOut, apiVars, loggerVars, storeVars,
                   authVars, audioVars, recVars, listVars, appVars>>

\* handleLogout, confirmed: apiService.logout() of the session client
handleLogout ==
    /\ screen = "recording"
    /\ Len(nativeQueue) < MaxQueued
    /\ screen' = "loggingOut"
    /\ clearAuthToken
    /\ owed' = NoToken
    /\ UNCHANGED <<persisted, loadPc, loadValue, authLoginPc, sent, constructed,
                   bgPc, userPc, userToken, loggedOut, apiVars, loggerVars,
                   storeVars, audioVars, recVars, listVars, appVars>>

\* StorageService.removeUser() has settled: onLogout(), LoginScreen mounts
onLogout ==
    /\ screen = "loggingOut"
    /\ screen' = "login"
    /\ loggedOut' = TRUE
    /\ bgPc' = IF bgPc = "done" THEN "start" ELSE bgPc
    /\ UNCHANGED <<userPc, userToken, apiVars, loggerVars, storeVars, authVars,
                   audioVars, recVars, listVars, appVars>>

----------------------------------------------------------------------------
(* AudioService: startRecording and stopRecording, split at their awaits *)

\* this.recording = null
NoRecording == 0

AudioCallers == {"contact", "logout"}

NoAudioCall == [op |-> "none", pc |-> "idle", ret |-> "null", rec |-> NoRecording,
                busy |-> FALSE, perm |-> "unknown"]

\* recording.getURI() of a platform recording
getURI(rec) == "file:///cache/recording-" \o ToString(rec) \o ".m4a"

\* a guard that never finds a session
AlreadyRecordingNever(flag) == FALSE

\* if (this.isRecording) return null
AlreadyRecording(flag) == flag

\* if (!this.isRecording || !this.recording) return null
NothingToStop(flag, rec) == ~flag \/ rec = NoRecording

\* a refusal that is never noticed
PermissionRefusedNever(hasPermission) == FALSE

\* if (!hasPermission) throw new Error(no permission to record)
PermissionRefused(hasPermission) == ~hasPermission

\* what recording.getURI() may give: the uri of the file, or null
getURIOutcomes(rec) == {getURI(rec), "null"}

\* the call of caller c moves to position p / returns ret
AudioCallAt(c, p) == audioCalls' = [audioCalls EXCEPT ![c].pc = p]

AudioCallReturns(c, ret) ==
    audioCalls' = [audioCalls EXCEPT ![c].pc = "done", ![c].ret = ret]

\* startRecording() is called by c: up to the await of requestPermissions
StartRecordingBy(c) ==
    /\ audioCalls[c].pc \in {"idle", "done"}
    /\ startCalls < MaxStarts
    /\ startCalls' = startCalls + 1
    /\ audioCalls' = [audioCalls EXCEPT ![c] =
         [op |-> "start",
          pc |-> IF AlreadyRecording(isRecording) THEN "done" ELSE "permissions",
          ret |-> "null", rec |-> NoRecording, busy |-> isRecording,
          perm |-> "unknown"]]
    /\ UNCHANGED <<isRecording, recording, active, created, files>>

\* stopRecording() is called by c: up to the await of stopAndUnloadAsync
StopRecordingBy(c) ==
    /\ audioCalls[c].pc \in {"idle", "done"}
    /\ audioCalls' = [audioCalls EXCEPT ![c] =
         [op |-> "stop",
          pc |-> IF NothingToStop(isRecording, recording) THEN "done" ELSE "stopping",
          ret |-> "null", rec |-> recording, busy |-> isRecording,
          perm |-> "unknown"]]
    /\ UNCHANGED <<isRecording, recording, active, created, startCalls, files>>

startRecording ==
    /\ \E c \in AudioCallers : StartRecordingBy(c)
    /\ UNCHANGED notAudio

stopRecording ==
    /\ \E c \in AudioCallers : StopRecordingBy(c)
    /\ UNCHANGED notAudio

\* requestPermissions() settles with true, or with false (status not
\* 'granted', or requestPermissionsAsync threw): then the throw into the catch
PermissionsSettle ==
    /\ \E c \in AudioCallers, hasPermission \in BOOLEAN :
         /\ audioCalls[c].pc = "permissions"
         /\ audioCalls' = [audioCalls EXCEPT
              ![c].perm = IF hasPermission THEN "granted" ELSE "refused",
              ![c].pc = IF PermissionRefused(hasPermission) THEN "done"
                        ELSE "audioMode"]
    /\ UNCHANGED <<isRecording, recording, active, created, startCalls, files,
                   notAudio>>

\* Audio.setAudioModeAsync settles
AudioModeSettles ==
    /\ \E c \in AudioCallers, ok \in BOOLEAN :
         /\ audioCalls[c].pc = "audioMode"
         /\ IF ok THEN AudioCallAt(c, "create") ELSE AudioCallReturns(c, "null")
    /\ UNCHANGED <<isRecording, recording, active, created, startCalls, files,
                   notAudio>>

\* Audio.Recording.createAsync settles: a platform recording is created and
\* started and the service takes it, or createAsync throws
CreateSettles ==
    /\ \E c \in AudioCallers, ok \in BOOLEAN :
         /\ audioCalls[c].pc = "create"
         /\ IF ok
            THEN /\ created' = created + 1
                 /\ active' = active \cup {created + 1}
                 /\ recording' = created + 1
                 /\ isRecording' = TRUE
                 /\ audioCalls' = [audioCalls EXCEPT ![c].pc = "done",
                                                    ![c].ret = "recording",
                                                    ![c].rec = created + 1]
            ELSE /\ AudioCallReturns(c, "null")
                 /\ UNCHANGED <<isRecording, recording, active, created>>
    /\ UNCHANGED <<startCalls, files, notAudio>>

\* stopAndUnloadAsync settles for the recording the call stopped, whose file
\* is then written: then this.recording.getURI() (a TypeError when
\* this.recording is null by now), or the catch
StopSettles ==
    /\ \E c \in AudioCallers, ok \in BOOLEAN :
         /\ audioCalls[c].pc = "stopping"
         /\ IF ok
            THEN /\ active' = active \ {audioCalls[c].rec}
                 /\ files' = files \cup {getURI(audioCalls[c].rec)}
                 /\ IF recording = NoRecording
                    THEN /\ AudioCallReturns(c, "null")
                         /\ UNCHANGED <<isRecording, recording>>
                    ELSE /\ \E uri \in getURIOutcomes(recording) :
                              AudioCallReturns(c, uri)
                         /\ isRecording' = FALSE
                         /\ recording' = NoRecording
            ELSE /\ AudioCallReturns(c, "null")
                 /\ UNCHANGED <<isRecording, recording, active, files>>
    /\ UNCHANGED <<created, startCalls, notAudio>>

----------------------------------------------------------------------------
(* AudioService: uploadRecording and saveRecordingToDocuments *)

\* uploadRecording: success for the statuses 200 and 201, whether or not the
\* body parses; any other status and a thrown uploadAsync give success: false
uploadRecordingSuccess(answer) == answer.status = 200 \/ answer.status = 201

\* what uploadAsync may settle with in uploadRecording
UploadRecordingAnswers ==
    {NetworkFailure,
     [status |-> 200, body |-> UploadedText],
     [status |-> 201, body |-> HtmlText],
     [status |-> 299, body |-> CreatedText],
     [status |-> 500, body |-> ""]}

\* a result that reports every answered request as a success
uploadRecordingLoose(answer) ==
    [kind |-> "return", success |-> answer.status # 0, message |-> "uploaded"]

\* uploadRecording(uri, locationId, durationSeconds), given what uploadAsync
\* settles with (status 0: it threw answer.body): always a returned result
uploadRecording(answer) ==
    IF answer.status = 0
    THEN Returned(FALSE, "Upload problem: " \o answer.body
                          \o ". Recording saved locally.")
    ELSE IF uploadRecordingSuccess(answer)
    THEN Returned(TRUE, "Recording uploaded to the server")
    ELSE Returned(FALSE, "Server error: " \o ToString(answer.status) \o ". "
                          \o (IF answer.body = "" THEN "Unknown error"
                              ELSE answer.body))

\* `${documentsDir}recordings/${filename}`
finalPath(filename) == "file:///documents/recordings/" \o filename

\* a fallback to a path where nothing was written
savedPathAlwaysFinal(uri, filename, copied) == finalPath(filename)

\* saveRecordingToDocuments: finalPath after copyAsync, the given uri when
\* anything threw
savedPath(uri, filename, copied) == IF copied THEN finalPath(filename) ELSE uri

----------------------------------------------------------------------------
(* RecordingScreen: the contact button, and the stop made by handleLogout  *)

\* what getRecordingDuration may resolve to
DurationInputs == {0, 3000}

NoFlow == [start |-> Undefined, uri |-> "null", endTime |-> Undefined,
           duration |-> 0, before |-> <<>>]

NoSession == [n |-> 0, by |-> "none", uri |-> "null", upload |-> "none",
              saves |-> 0, rec |-> [id |-> Undefined], grew |-> FALSE,
              readOk |-> FALSE, wrote |-> FALSE, done |-> FALSE,
              requests |-> 0, status |-> 0, result |-> Pending]

\* `recording_${user.username}_${timestamp}.m4a`
FileName(n) == "recording_u1_" \o ToString(n) \o ".m4a"

\* the Recording built after a successful upload
SyncedRecording(id, fl) ==
    [id |-> Str(id), userId |-> Str("u1"), locationId |-> Str("loc1"),
     startTime |-> fl.start, endTime |-> fl.endTime,
     audioFilePath |-> Str(fl.uri), duration |-> Num(fl.duration),
     serverId |-> Num(fl.endTime.v), synced |-> Bool(TRUE)]

\* the Recording built in catch (serverError)
LocalRecording(id, fl, path) ==
    [id |-> Str(id), userId |-> Str("u1"), locationId |-> Str("loc1"),
     startTime |-> fl.start, endTime |-> fl.endTime,
     audioFilePath |-> Str(path), duration |-> Num(fl.duration),
     synced |-> Bool(FALSE)]

\* the Alerts of the screen
NoAlert == "none"
StartFailedAlert == "could not start the recording"
SaveFailedAlert == "could not save the recording"
UploadedAlert == "recording uploaded"
UploadProblemAlert == "upload problem, saved locally"

\* a handler that ends without resetting isLoading
finallyKeepsLoading(loading) == loading

\* finally { setIsLoading(false) } of handleContactButton
finallySetIsLoading(loading) == FALSE

\* if (isLoading || isUploading) return
Busy(loading, uploading) == loading \/ uploading

\* the AudioService fields and calls
audioState == <<isRecording, recording, active, created, audioCalls, startCalls>>

\* handleContactButton: the tap, up to the await inside startRecording or
\* stopRecording
handleContactButton ==
    /\ logoutPc = "idle"
    /\ ~Busy(isLoading, isUploading)
    /\ isLoading' = TRUE
    /\ alert' = NoAlert
    /\ IF ~screenIsRecording
       THEN /\ StartRecordingBy("contact")
            /\ contactPc' = "starting"
            /\ UNCHANGED flow
       ELSE /\ StopRecordingBy("contact")
            /\ contactPc' = "stopping"
            /\ flow' = [NoFlow EXCEPT !.start = recordingStartTime]
    /\ UNCHANGED <<screenIsRecording, isUploading, recordingStartTime, logoutPc,
                   session, uploads, apiVars, loggerVars, storeVars, authVars,
                   screenVars, listVars, appVars>>

\* audioService.startRecording() has returned to the screen's startRecording
StartReturns ==
    /\ contactPc = "starting"
    /\ audioCalls["contact"].pc = "done"
    /\ contactPc' = "idle"
    /\ isLoading' = finallySetIsLoading(isLoading)
    /\ IF audioCalls["contact"].ret # "null"
       THEN /\ screenIsRecording' = TRUE
            /\ recordingStartTime' = Date(1000 * startCalls)
            /\ Emit(<<INFO("recording started")>>)
            /\ UNCHANGED alert
       ELSE /\ alert' = StartFailedAlert
            /\ UNCHANGED <<screenIsRecording, recordingStartTime, loggerVars>>
    /\ UNCHANGED <<isUploading, logoutPc, flow, session, uploads, apiVars,
                   storeVars, authVars, screenVars, listVars, appVars, audioVars>>

\* audioService.stopRecording() has returned to the screen's stopRecording
StopReturns ==
    /\ contactPc = "stopping"
    /\ audioCalls["contact"].pc = "done"
    /\ LET uri == audioCalls["contact"].ret
       IN  IF uri # "null" /\ flow.start # Undefined
           THEN /\ contactPc' = "duration"
                /\ flow' = [flow EXCEPT !.uri = uri, !.endTime = Date(flow.start.v + 500)]
                /\ session' = [NoSession EXCEPT !.n = session.n + 1,
                                                !.by = "contact", !.uri = uri]
                /\ UNCHANGED <<isLoading, alert>>
           ELSE /\ contactPc' = "idle"
                /\ isLoading' = finallySetIsLoading(isLoading)
                /\ alert' = SaveFailedAlert
                /\ UNCHANGED <<flow, session>>
    /\ UNCHANGED <<screenIsRecording, isUploading, recordingStartTime, logoutPc,
                   uploads, apiVars, loggerVars, storeVars, authVars, screenVars, listVars, appVars,
                   audioVars>>

\* getRecordingDuration(uri) has resolved: the states are set and
\* uploadRecording is called
DurationSettles ==
    /\ contactPc = "duration"
    /\ \E duration \in DurationInputs : flow' = [flow EXCEPT !.duration = duration]
    /\ screenIsRecording' = FALSE
    /\ recordingStartTime' = Undefined
    /\ isUploading' = TRUE
    /\ contactPc' = "uploading"
    /\ uploads' = uploads \cup {session.n}
    /\ session' = [session EXCEPT !.requests = @ + 1]
    /\ Emit(<<INFO("recording finished"), INFO("starting the upload"),
              INFO("upload data")>>)
    /\ UNCHANGED <<isLoading, logoutPc, alert, apiVars, storeVars, authVars,
                   screenVars, listVars, appVars, audioVars>>

\* audioService.uploadRecording has resolved: on success the Recording is
\* saved with synced: true, otherwise the catch copies the file
UploadSettles ==
    /\ contactPc = "uploading"
    /\ \E answer \in UploadRecordingAnswers :
         /\ uploads' = uploads \ {session.n}
         /\ IF uploadRecording(answer).success
            THEN
              /\ session' = [session EXCEPT !.upload = "ok", !.saves = @ + 1,
                               !.status = answer.status,
                               !.result = uploadRecording(answer),
                               !.rec = SyncedRecording(ToString(saveCount + 1), flow)]
              /\ Invoke("screen", "save", SyncedRecording(ToString(saveCount + 1), flow))
              /\ saveCount' = saveCount + 1
              /\ flow' = [flow EXCEPT !.before = ParseStored(stored)]
              /\ contactPc' = "saving"
              /\ Emit(<<INFO("uploaded to the server")>>)
            ELSE
              /\ session' = [session EXCEPT !.upload = "failed",
                                            !.status = answer.status,
                                            !.result = uploadRecording(answer)]
              /\ contactPc' = "copying"
              /\ Emit(<<ERROR("upload failed")>>)
              /\ UNCHANGED <<storage, saveCount, flow>>
    /\ UNCHANGED <<stored, lastWrite, screenIsRecording, isLoading, isUploading,
                   recordingStartTime, logoutPc, alert, apiVars, authVars,
                   screenVars, listVars, appVars, audioVars>>

\* audioService.saveRecordingToDocuments has resolved: the Recording is saved
\* with synced: false
CopySettles ==
    /\ contactPc = "copying"
    /\ \E copied \in BOOLEAN :
         LET path == savedPath(flow.uri, FileName(session.n), copied)
             rec == LocalRecording(ToString(saveCount + 1), flow, path)
         IN  /\ files' = IF copied THEN files \cup {finalPath(FileName(session.n))}
                         ELSE files
             /\ session' = [session EXCEPT !.saves = @ + 1, !.rec = rec]
             /\ Invoke("screen", "save", rec)
    /\ saveCount' = saveCount + 1
    /\ flow' = [flow EXCEPT !.before = ParseStored(stored)]
    /\ contactPc' = "saving"
    /\ UNCHANGED <<stored, lastWrite, screenIsRecording, isLoading, isUploading,
                   recordingStartTime, logoutPc, alert, uploads, apiVars,
                   loggerVars, authVars, screenVars, listVars, appVars, audioState>>

\* StorageService.saveRecording has returned: the alert, setIsUploading(false)
\* and the finally of handleContactButton
SaveReturns ==
    /\ contactPc = "saving"
    /\ storage["screen"].pc = "done"
    /\ contactPc' = "idle"
    /\ isUploading' = FALSE
    /\ isLoading' = finallySetIsLoading(isLoading)
    /\ alert' = IF session.upload = "ok" THEN UploadedAlert ELSE UploadProblemAlert
    /\ session' = [session EXCEPT
                     !.done = TRUE,
                     !.readOk = storage["screen"].readOk,
                     !.wrote = storage["screen"].ok,
                     !.grew = (ParseStored(stored)
                                 = Append(flow.before, JSONvalue(session.rec)))]
    /\ UNCHANGED <<screenIsRecording, recordingStartTime, logoutPc, flow,
                   uploads, apiVars, loggerVars, storeVars, authVars, screenVars, listVars, appVars,
                   audioVars>>

\* handleLogout, confirmed while isRecording: audioService.stopRecording()
handleLogoutStops ==
    /\ logoutPc = "idle"
    /\ screenIsRecording
    /\ StopRecordingBy("logout")
    /\ logoutPc' = "stopping"
    /\ UNCHANGED <<screenIsRecording, isLoading, isUploading, recordingStartTime,
                   contactPc, flow, session, alert, uploads, apiVars, loggerVars,
                   storeVars, authVars, screenVars, listVars, appVars>>

\* that stopRecording() has returned: the states are reset, the uri is
\* dropped, and handleLogout goes on to log out
LogoutStopReturns ==
    /\ logoutPc = "stopping"
    /\ audioCalls["logout"].pc = "done"
    /\ logoutPc' = "out"
    /\ screenIsRecording' = FALSE
    /\ recordingStartTime' = Undefined
    /\ session' = IF audioCalls["logout"].ret # "null" /\ contactPc = "idle"
                  THEN [NoSession EXCEPT !.n = session.n + 1, !.by = "logout",
                                         !.uri = audioCalls["logout"].ret,
                                         !.done = TRUE]
                  ELSE session
    /\ UNCHANGED <<isLoading, isUploading, contactPc, flow, alert, uploads,
                   apiVars, loggerVars, storeVars, authVars, screenVars, listVars, appVars, audioVars>>

\* handleLogout, confirmed while isRecording is false: no stopRecording(),
\* handleLogout goes on to log out
handleLogoutSkips ==
    /\ logoutPc = "idle"
    /\ ~screenIsRecording
    /\ logoutPc' = "out"
    /\ UNCHANGED <<screenIsRecording, isLoading, isUploading, recordingStartTime,
                   contactPc, flow, session, alert, uploads, apiVars, loggerVars,
                   storeVars, authVars, screenVars, listVars, appVars, audioVars>>

\* onShowRecordings() while uploadRecording is awaited, then onBack(): App
\* unmounts RecordingScreen and mounts a new one, whose states have their
\* initial values and whose AudioService is new; the upload goes on
showRecordingsAndBack ==
    /\ contactPc = "uploading"
    /\ logoutPc = "idle"
    /\ contactPc' = "idle"
    /\ screenIsRecording' = FALSE
    /\ recordingStartTime' = Undefined
    /\ isLoading' = FALSE
    /\ isUploading' = FALSE
    /\ flow' = NoFlow
    /\ alert' = NoAlert
    /\ isRecording' = FALSE
    /\ recording' = NoRecording
    /\ audioCalls' = [c \in AudioCallers |-> NoAudioCall]
    /\ UNCHANGED <<logoutPc, session, uploads, active, created, startCalls, files,
                   apiVars, loggerVars, storeVars, authVars, screenVars, listVars, appVars>>

\* uploadAsync settles for a screen that is no longer mounted (the rest of
\* its stopRecording makes no upload request)
OrphanUploadSettles ==
    /\ \E n \in uploads :
         /\ ~(contactPc = "uploading" /\ n = session.n)
         /\ uploads' = uploads \ {n}
    /\ UNCHANGED <<screenIsRecording, isLoading, isUploading, recordingStartTime,
                   contactPc, logoutPc, flow, session, alert, apiVars, loggerVars,
                   storeVars, authVars, screenVars, listVars, appVars, audioVars>>

----------------------------------------------------------------------------
(* RecordingsListScreen: playRecording and its 3-second timer              *)

\* the ids of the recordings listed
RecordingIds == {"r1", "r2"}

\* playRecording(recording), up to the await of audioService.playRecording:
\* a tap on the recording that is playing clears playingId and returns
playRecording ==
    /\ \E r \in RecordingIds :
         IF playingId = r
         THEN /\ playingId' = "null"
              /\ playingBy' = 0
              /\ UNCHANGED <<plays, timers>>
         ELSE /\ Len(plays) < MaxPlays
              /\ playingId' = r
              /\ playingBy' = Len(plays) + 1
              /\ plays' = Append(plays, [id |-> r, pc |-> "playing"])
              /\ UNCHANGED timers
    /\ UNCHANGED notList

\* audioService.playRecording settles: setTimeout(..., 3000), or the catch
\* with setPlayingId(null) and the alert
PlayRecordingSettles ==
    /\ \E p \in DOMAIN plays, ok \in BOOLEAN :
         /\ plays[p].pc = "playing"
         /\ IF ok
            THEN /\ plays' = [plays EXCEPT ![p].pc = "timer"]
                 /\ timers' = Append(timers, p)
                 /\ UNCHANGED <<playingId, playingBy>>
            ELSE /\ plays' = [plays EXCEPT ![p].pc = "failed"]
                 /\ playingId' = "null"
                 /\ playingBy' = 0
                 /\ UNCHANGED timers
    /\ UNCHANGED notList

\* the oldest timer fires: setPlayingId(null)
TimerFires ==
    /\ timers # <<>>
    /\ plays' = [plays EXCEPT ![Head(timers)].pc = "done"]
    /\ timers' = Tail(timers)
    /\ playingId' = "null"
    /\ playingBy' = 0
    /\ UNCHANGED notList

----------------------------------------------------------------------------
(* App: checkExistingAuth and the handlers passed to the screens           *)

NoUser == [id |-> "null", isLoggedIn |-> FALSE]

NoLocation == "null"

\* the User objects LoginScreen builds (isLoggedIn: true)
Users == {[id |-> u, isLoggedIn |-> TRUE] : u \in {"u1", "u2"}}

Locations == {"loc1", "loc2"}

\* what getUser() may resolve to: null (no item, or the read failed), or the
\* parsed item
SavedUsers == Users \cup {NoUser, [id |-> "u1", isLoggedIn |-> FALSE]}

\* what getSelectedLocation() may resolve to
SavedLocations == Locations \cup {NoLocation}

\* a test that leaves the location out
RestoresSessionUserOnly(u, l) == u # NoUser /\ u.isLoggedIn

\* if (savedUser && savedUser.isLoggedIn && savedLocation)
RestoresSession(u, l) == u # NoUser /\ u.isLoggedIn /\ l # NoLocation

\* renderScreen(): the screen that is mounted
Mounted ==
    IF appIsLoading THEN "none"
    ELSE IF currentScreen = "recording" /\ user # NoUser /\ location # NoLocation
    THEN "RecordingScreen"
    ELSE IF currentScreen = "recordings" /\ user # NoUser
    THEN "RecordingsListScreen"
    ELSE "LoginScreen"

\* checkExistingAuth: StorageService.getUser() has resolved
GetUserSettles ==
    /\ checkPc = "getUser"
    /\ \E u \in SavedUsers : savedUser' = u
    /\ checkPc' = "getSelectedLocation"
    /\ UNCHANGED <<user, location, appIsLoading, currentScreen, savedLocation,
                   loginsPending, logoutsPending, taps, notApp>>

\* checkExistingAuth: getSelectedLocation() has resolved: the test, the three
\* setters, and finally setIsLoading(false)
checkExistingAuth ==
    /\ checkPc = "getSelectedLocation"
    /\ \E l \in SavedLocations :
         /\ savedLocation' = l
         /\ IF RestoresSession(savedUser, l)
            THEN /\ user' = savedUser
                 /\ location' = l
                 /\ currentScreen' = "recording"
            ELSE UNCHANGED <<user, location, currentScreen>>
    /\ appIsLoading' = FALSE
    /\ checkPc' = "done"
    /\ UNCHANGED <<savedUser, loginsPending, logoutsPending, taps, notApp>>

\* LoginScreen.handleLogin is started by a tap and will reach onLogin(user,
\* selectedLocation)
LoginTapped ==
    /\ Mounted = "LoginScreen"
    /\ taps < MaxTaps
    /\ taps' = taps + 1
    /\ \E u \in Users, l \in Locations :
         loginsPending' = loginsPending \cup {<<u, l>>}
    /\ UNCHANGED <<user, location, appIsLoading, currentScreen, checkPc, savedUser,
                   savedLocation, logoutsPending, notApp>>

\* handleLogin(loggedInUser, selectedLocation), called as onLogin
App_handleLogin ==
    /\ \E call \in loginsPending :
         /\ loginsPending' = loginsPending \ {call}
         /\ user' = call[1]
         /\ location' = call[2]
         /\ currentScreen' = "recording"
    /\ UNCHANGED <<appIsLoading, checkPc, savedUser, savedLocation, logoutsPending,
                   taps, notApp>>

\* RecordingScreen.handleLogout is confirmed and will reach onLogout()
LogoutConfirmed ==
    /\ Mounted = "RecordingScreen"
    /\ taps < MaxTaps
    /\ taps' = taps + 1
    /\ logoutsPending' = logoutsPending + 1
    /\ UNCHANGED <<user, location, appIsLoading, currentScreen, checkPc, savedUser,
                   savedLocation, loginsPending, notApp>>

\* handleLogout(), called as onLogout
App_handleLogout ==
    /\ logoutsPending > 0
    /\ logoutsPending' = logoutsPending - 1
    /\ user' = NoUser
    /\ location' = NoLocation
    /\ currentScreen' = "login"
    /\ UNCHANGED <<appIsLoading, checkPc, savedUser, savedLocation, loginsPending,
                   taps, notApp>>

\* handleShowRecordings(), called as onShowRecordings by RecordingScreen
handleShowRecordings ==
    /\ Mounted = "RecordingScreen"
    /\ currentScreen' = "recordings"
    /\ UNCHANGED <<user, location, appIsLoading, checkPc, savedUser, savedLocation,
                   loginsPending, logoutsPending, taps, notApp>>

\* handleBackToRecording(), called as onBack by RecordingsListScreen
handleBackToRecording ==
    /\ Mounted = "RecordingsListScreen"
    /\ currentScreen' = "recording"
    /\ UNCHANGED <<user, location, appIsLoading, checkPc, savedUser, savedLocation,
                   loginsPending, logoutsPending, taps, notApp>>

----------------------------------------------------------------------------
(* Specifications *)

Init ==
    /\ token = NoToken
    /\ pc = "idle"
    /\ attempt = 0
    /\ lastError = ""
    /\ uriValid = TRUE
    /\ heldAtCall = FALSE
    /\ result = Pending
    /\ trace = <<>>
    /\ userLogin = "idle"
    /\ logs = <<>>
    /\ clock = 0
    /\ appended = <<>>
    /\ stored = NoItem
    /\ storage = [c \in StorageCallers |-> NoCall]
    /\ lastWrite = [op |-> "none"]
    /\ saveCount = 0
    /\ authToken = NoToken
    /\ persisted = NoToken
    /\ nativeQueue = <<[op |-> "getItem", value |-> NoToken]>>
    /\ loadPc = "getItem"
    /\ loadValue = NoToken
    /\ authLoginPc = "idle"
    /\ sent = <<>>
    /\ owed = NoToken
    /\ constructed = 1
    /\ screen = "login"
    /\ bgPc = "start"
    /\ userPc = "idle"
    /\ userToken = NoToken
    /\ loggedOut = FALSE
    /\ isRecording = FALSE
    /\ recording = NoRecording
    /\ active = {}
    /\ created = 0
    /\ audioCalls = [c \in AudioCallers |-> NoAudioCall]
    /\ startCalls = 0
    /\ files = {}
    /\ screenIsRecording = FALSE
    /\ isLoading = FALSE
    /\ isUploading = FALSE
    /\ recordingStartTime = Undefined
    /\ contactPc = "idle"
    /\ logoutPc = "idle"
    /\ flow = NoFlow
    /\ session = NoSession
    /\ alert = NoAlert
    /\ uploads = {}
    /\ playingId = "null"
    /\ plays = <<>>
    /\ timers = <<>>
    /\ playingBy = 0
    /\ user = NoUser
    /\ location = NoLocation
    /\ appIsLoading = TRUE
    /\ currentScreen = "login"
    /\ checkPc = "getUser"
    /\ savedUser = NoUser
    /\ savedLocation = NoLocation
    /\ loginsPending = {}
    /\ logoutsPending = 0
    /\ taps = 0

Next ==
    \/ uploadAudio
    \/ LoginResponds
    \/ ProbeResponds
    \/ UploadResponds
    \/ DelayElapses
    \/ login
    \/ loginSettles
    \/ logout

Spec == Init /\ [][Next]_vars

\* every network call of uploadAudio is answered or fails, and every backoff
\* timer fires
UploadCallsComplete ==
    /\ WF_vars(LoginResponds)
    /\ WF_vars(ProbeResponds)
    /\ WF_vars(UploadResponds)
    /\ WF_vars(DelayElapses)

SpecUploadFair == Spec /\ UploadCallsComplete

NextLogger ==
    \/ info
    \/ warn
    \/ error
    \/ clearLogs

SpecLogger == Init /\ [][NextLogger]_vars

NextStorage ==
    \/ saveRecording
    \/ getRecordings
    \/ removeRecording
    \/ getItemSettles
    \/ setItemSettles

SpecStorage == Init /\ [][NextStorage]_vars

\* saveRecording calls only
NextSaves ==
    \/ saveRecording
    \/ getItemSettles
    \/ setItemSettles

SpecSaves == Init /\ [][NextSaves]_vars

NextSession ==
    \/ construct
    \/ AsyncStoragePerforms
    \/ loadAuthToken
    \/ authLogin
    \/ authLoginSettles
    \/ authLogout
    \/ makeRequest
    \/ authUploadAudio

SpecSession == Init /\ [][NextSession]_vars

NextScreens ==
    \/ loadApiLocations
    \/ LocationsLoginSettles
    \/ LocationsSettle
    \/ handleLogin
    \/ HandleLoginSettles
    \/ onLogin
    \/ handleLogout
    \/ onLogout
    \/ AsyncStoragePerforms
    \/ loadAuthToken

SpecScreens == Init /\ [][NextScreens]_vars

NextAudio ==
    \/ startRecording
    \/ stopRecording
    \/ PermissionsSettle
    \/ AudioModeSettles
    \/ CreateSettles
    \/ StopSettles

SpecAudio == Init /\ [][NextAudio]_vars

NextRecording ==
    \/ handleContactButton
    \/ StartReturns
    \/ StopReturns
    \/ DurationSettles
    \/ UploadSettles
    \/ CopySettles
    \/ SaveReturns
    \/ handleLogoutStops
    \/ LogoutStopReturns
    \/ handleLogoutSkips
    \/ PermissionsSettle
    \/ AudioModeSettles
    \/ CreateSettles
    \/ StopSettles
    \/ getItemSettles
    \/ setItemSettles

SpecRecording == Init /\ [][NextRecording]_vars

\* every awaited platform, storage and network call of the screen completes,
\* and the handler goes on when it has
AwaitedCallsComplete ==
    /\ WF_vars(PermissionsSettle)
    /\ WF_vars(AudioModeSettles)
    /\ WF_vars(CreateSettles)
    /\ WF_vars(StopSettles)
    /\ WF_vars(StartReturns)
    /\ WF_vars(StopReturns)
    /\ WF_vars(DurationSettles)
    /\ WF_vars(UploadSettles)
    /\ WF_vars(CopySettles)
    /\ WF_vars(getItemSettles)
    /\ WF_vars(setItemSettles)
    /\ WF_vars(SaveReturns)

SpecRecordingFair == SpecRecording /\ AwaitedCallsComplete

NextNavigation ==
    \/ NextRecording
    \/ showRecordingsAndBack
    \/ OrphanUploadSettles

SpecNavigation == Init /\ [][NextNavigation]_vars

NextList ==
    \/ playRecording
    \/ PlayRecordingSettles
    \/ TimerFires

SpecList == Init /\ [][NextList]_vars

NextApp ==
    \/ GetUserSettles
    \/ checkExistingAuth
    \/ LoginTapped
    \/ App_handleLogin
    \/ LogoutConfirmed
    \/ App_handleLogout
    \/ handleShowRecordings
    \/ handleBackToRecording

SpecApp == Init /\ [][NextApp]_vars

----------------------------------------------------------------------------
(* Reading the trace of the uploadAudio invocation *)

Where(ev) == {i \in DOMAIN trace : trace[i].ev = ev}

Count(ev) == Cardinality(Where(ev))

Ended == pc \in {"returned", "thrown"}

LastEvent == trace[Len(trace)]

\* a login answer after which the implicit login has failed: the request threw
\* (no answer, a status outside 200..299, a body that is not JSON) or the
\* answer says success = false
LoginFailed(e) ==
    \/ e.num < 200
    \/ e.num > 299
    \/ ~JSONparse(e.text).ok
    \/ ~JSONparse(e.text).success

----------------------------------------------------------------------------
(* Claims about uploadAudio, checked under Spec *)

\* C1: uploadAudio makes at most 3 attempts (so at most 3 probes and at most
\* 3 upload requests); when it ends with every attempt failed, it has made
\* exactly 3 attempts.
C1_AtMostThreeAttempts ==
    /\ Count("attempt") <= 3
    /\ Count("probe") <= 3
    /\ Count("upload") <= 3
    /\ \A i \in Where("attempt") : trace[i].n \in 1..3
    /\ (Ended /\ Count("attempt") >= 1 /\ Count("fail") = Count("attempt"))
          => Count("attempt") = 3

C1_Witness ==
    /\ pc = "thrown"
    /\ Count("attempt") = 3
    /\ Count("fail") = 3
    /\ Count("upload") = 3

\* C2 as stated: when all 3 attempts have failed, the call returns a failure
\* result (success = false with a message) and does not throw.
C2_FailureIsReturned ==
    (Ended /\ Count("fail") = 3)
        => (result.kind = "return" /\ ~result.success /\ result.message # "")

\* C2 amended: when all 3 attempts have failed, the call ends by throwing the
\* error of the third attempt (lastError); it returns no result.
C2_FailureIsThrown ==
    Count("fail") = 3
        => /\ pc = "thrown"
           /\ result.kind = "throw"
           /\ LastEvent.ev = "fail"
           /\ LastEvent.n = 3
           /\ result.message = LastEvent.text
           /\ result.message = lastError
           /\ result.message # ""

C2_Witness ==
    /\ pc = "thrown"
    /\ Count("fail") = 3
    /\ result = Thrown("HTTP 401: " \o RejectedText)

\* C3: when uploadAudio returns from inside the loop, the last thing it did
\* was to receive the answer of the upload of attempt k, k in 1..3, with a
\* status in 200..299 and a JSON body; it returns the parsed body, after
\* exactly k attempts, k-1 failures and k-1 backoff delays, and nothing is
\* requested afterwards.
C3_SuccessAfterKAttempts ==
    /\ \A i \in Where("uploadResp") :
         (trace[i].num >= 200 /\ trace[i].num < 300 /\ JSONparse(trace[i].text).ok)
            => /\ i = Len(trace)
               /\ pc = "returned"
    /\ (pc = "returned" /\ Count("attempt") >= 1)
         => LET k == Count("attempt")
                parsed == JSONparse(LastEvent.text)
            IN  /\ k \in 1..3
                /\ LastEvent.ev = "uploadResp"
                /\ LastEvent.n = k
                /\ LastEvent.num >= 200
                /\ LastEvent.num < 300
                /\ parsed.ok
                /\ result = Returned(parsed.success, parsed.message)
                /\ Count("fail") = k - 1
                /\ Count("delay") = k - 1
                /\ Count("upload") <= k
                /\ Count("probe") <= k

C3_Witness ==
    /\ pc = "returned"
    /\ result = Returned(TRUE, "created")
    /\ Count("attempt") = 3
    /\ Count("fail") = 2
    /\ Count("delay") = 2
    /\ LastEvent = Ev("uploadResp", 3, 299, CreatedText)

\* C4: a backoff delay is set exactly after a failed attempt k < 3, of
\* 2000 ms after attempt 1 and 4000 ms after attempt 2; nothing follows the
\* failure of attempt 3, and no delay follows anything but a failure.
C4_BackoffDelays ==
    /\ \A i \in Where("delay") :
         /\ i > 1
         /\ trace[i - 1].ev = "fail"
         /\ trace[i - 1].n = trace[i].n
         /\ trace[i].n \in {1, 2}
         /\ trace[i].n = 1 => trace[i].num = 2000
         /\ trace[i].n = 2 => trace[i].num = 4000
    /\ \A i \in Where("fail") :
         /\ trace[i].n < 3 => (i < Len(trace) /\ trace[i + 1].ev = "delay")
         /\ trace[i].n >= 3 => i = Len(trace)
    /\ pc = "delay" <=> (trace # <<>> /\ LastEvent.ev = "delay")

C4_Witness ==
    /\ pc = "thrown"
    /\ \E i, j \in Where("delay") :
         /\ i < j
         /\ trace[i].num = 2000
         /\ trace[j].num = 4000
    /\ Count("delay") = 2

\* C5: invoked with no token, uploadAudio makes exactly one login call, and
\* it is the first request of the sequence; invoked with a token, it makes
\* no login call.
C5_OneImplicitLogin ==
    pc # "idle"
        => IF heldAtCall
           THEN Count("login") = 0
           ELSE /\ Count("login") = 1
                /\ trace[1].ev = "login"
                /\ trace[1].text = "admin/admin123"

C5_Witness ==
    /\ ~heldAtCall
    /\ pc = "thrown"
    /\ Count("login") = 1
    /\ Count("probe") = 3
    /\ Count("upload") = 3

\* C6: when the implicit login fails, uploadAudio ends at once: no probe, no
\* upload, no attempt, and it returns (does not throw) success = false with
\* an authorization error message.
C6_LoginFailureAborts ==
    \A i \in Where("loginResp") :
        LoginFailed(trace[i])
            => /\ pc = "returned"
               /\ result.kind = "return"
               /\ ~result.success
               /\ result.message \in
                     {"Authorization error: " \o m :
                         m \in {"Network request failed", "HTTP error! status: 401",
                                "JSON Parse error", "could not log in for the upload"}}
               /\ Count("attempt") = 0
               /\ Count("probe") = 0
               /\ Count("upload") = 0
               /\ Len(trace) = 2

C6_Witness ==
    /\ pc = "returned"
    /\ trace = <<Ev("login", 0, 0, "admin/admin123"),
                 Ev("loginResp", 0, 200, RejectedText)>>
    /\ result = Returned(FALSE, "Authorization error: could not log in for the upload")

\* C7: an upload request is issued only right after the probe of the same
\* attempt was answered with an ok status; a probe that fails (no answer, or a
\* status that is not ok) is followed by the failure of its attempt, with no
\* upload request in that attempt, within the budget of 3 attempts.
C7_ProbeBeforeUpload ==
    /\ \A i \in Where("upload") :
         /\ i > 2
         /\ trace[i - 1].ev = "probeResp"
         /\ trace[i - 1].n = trace[i].n
         /\ trace[i - 1].num >= 200
         /\ trace[i - 1].num <= 299
         /\ trace[i - 2].ev = "probe"
         /\ trace[i - 2].n = trace[i].n
    /\ \A i \in Where("probeResp") :
         (trace[i].num < 200 \/ trace[i].num > 299)
            => /\ i < Len(trace)
               /\ trace[i + 1].ev = "fail"
               /\ trace[i + 1].n = trace[i].n
               /\ \A j \in Where("upload") : trace[j].n # trace[i].n
               /\ trace[i].n = 3 => pc = "thrown"
               /\ \A j \in Where("attempt") : trace[j].n <= 3

C7_Witness ==
    /\ pc = "thrown"
    /\ Count("probe") = 3
    /\ Count("upload") = 0
    /\ \E i \in Where("probeResp") : trace[i].num = 503
    /\ \E i \in Where("probeResp") : trace[i].num = 0

\* an upload answer with a status in 200..299 whose body is not JSON
NonJsonSuccess(e) ==
    /\ e.ev = "uploadResp"
    /\ e.num >= 200
    /\ e.num < 300
    /\ ~JSONparse(e.text).ok

\* C8 as stated: a 2xx upload answer whose body is not JSON is reported as a
\* success, is not a failed attempt and triggers no retry.
C8_NonJsonTolerated ==
    \A i \in DOMAIN trace :
        NonJsonSuccess(trace[i])
            => /\ i = Len(trace)
               /\ pc = "returned"
               /\ result.kind = "return"
               /\ result.success

\* C8 amended: a 2xx upload answer whose body is not JSON is a failed attempt
\* (a parse error): it is followed by the backoff and a retry when the
\* attempt is the first or second, and by throwing that error when it is the
\* third; that answer is never what the call returns.
C8_NonJsonIsFailure ==
    \A i \in DOMAIN trace :
        NonJsonSuccess(trace[i])
            => /\ i < Len(trace)
               /\ trace[i + 1] = Ev("fail", trace[i].n, 0, "Server response parse error")
               /\ trace[i].n < 3 => trace[i + 2].ev = "delay"
               /\ trace[i].n = 3 => result = Thrown("Server response parse error")

C8_Witness ==
    /\ \E i \in DOMAIN trace :
         /\ NonJsonSuccess(trace[i])
         /\ trace[i].n = 1
    /\ pc = "returned"
    /\ Count("attempt") = 2
    /\ result = Returned(TRUE, "uploaded")

\* an upload rejected as unauthorized
Unauthorized(e) == e.ev = "uploadResp" /\ e.num = 401

\* C9 as stated: an upload rejected as unauthorized triggers exactly one
\* implicit re-login attempt.
C9_ReloginOnUnauthorized ==
    Ended =>
        \A i \in DOMAIN trace :
            Unauthorized(trace[i])
                => Cardinality({j \in Where("login") : j > i}) = 1

\* C9 amended: only a missing token at invocation triggers an implicit login
\* (one, before the first attempt), and the upload is aborted when that login
\* does not succeed; an upload rejected as unauthorized triggers no re-login:
\* it is one failed attempt, retried after the backoff within the 3 attempts.
C9_LoginOnlyForMissingToken ==
    /\ \A j \in Where("login") : j = 1 /\ ~heldAtCall
    /\ Count("login") <= 1
    /\ \A i \in Where("loginResp") :
         LoginFailed(trace[i]) => (Ended /\ Count("attempt") = 0)
    /\ \A i \in DOMAIN trace :
         Unauthorized(trace[i])
            => /\ i < Len(trace)
               /\ trace[i + 1].ev = "fail"
               /\ trace[i + 1].n = trace[i].n
               /\ trace[i].n < 3 => trace[i + 2].ev = "delay"
               /\ trace[i].n = 3 => pc = "thrown"

C9_Witness ==
    /\ heldAtCall
    /\ pc = "thrown"
    /\ Cardinality({i \in DOMAIN trace : Unauthorized(trace[i])}) = 3
    /\ Count("login") = 0

----------------------------------------------------------------------------
(* Claims about Logger, checked under SpecLogger *)

\* C10: the buffer never holds more than 100 entries, and a logger call made
\* when it holds 100 leaves it with the 99 newest of them followed by the new
\* entry: exactly the oldest is evicted.
C10_LogBufferBounded ==
    /\ [](Len(logs) <= 100)
    /\ [][(clock' # clock /\ Len(logs) = 100)
            => /\ Len(logs') = 100
               /\ logs' = Tail(logs) \o <<logs'[100]>>
               /\ logs'[100].timestamp = clock'
               /\ logs'[100] \notin {logs[i] : i \in DOMAIN logs}]_vars

C10_Witness ==
    /\ Len(logs) = 100
    /\ logs[1].timestamp = 3
    /\ logs[100].timestamp = 102

\* C11: getLogs() is exactly the most recent min(n, 100) of the n entries
\* appended since the last clearLogs, in the order of the calls; right after
\* clearLogs (n = 0) it is empty.
C11_GetLogsIsRecentSuffix ==
    LET n == Len(appended)
        k == IF n < 100 THEN n ELSE 100
    IN  /\ Len(getLogs) = k
        /\ \A i \in 1..k : getLogs[i] = appended[n - k + i]

\* a clearLogs after the first call, then 101 calls: the oldest call since the
\* clear is no longer returned
C11_Witness ==
    /\ clock = 102
    /\ Len(appended) = 101
    /\ appended[1].timestamp = 2
    /\ getLogs[1] = appended[2]
    /\ getLogs[100] = appended[101]

----------------------------------------------------------------------------
(* Claims about StorageService, checked under SpecStorage *)

\* a getRecordings() that returned normally and read the item as the
\* saveRecording(r) written last had left it: the call that wrote, or none
ReadBack(c) ==
    IF /\ storage[c].op = "get"
       /\ storage[c].pc = "done"
       /\ storage[c].ok
       /\ storage[c].saw.op = "save"
    THEN storage[c].saw
    ELSE [op |-> "none"]

\* C12: when saveRecording(r) has written the list and getRecordings() then
\* reads it back, the last element of the returned list equals r field for
\* field: ids, audio file path, duration, synced flag and server id as they
\* were, the start and end timestamps as the ISO strings of r's Dates.
C12_RoundTrip ==
    \A c \in StorageCallers :
        ReadBack(c).op = "save" =>
            LET r == ReadBack(c).arg
                ret == storage[c].ret
                p == ret[Len(ret)]
            IN  /\ Len(ret) > 0
                /\ \A k \in {"id", "userId", "locationId", "audioFilePath",
                              "duration", "synced", "serverId"} :
                       Field(p, k) = Field(r, k)
                /\ Field(p, "startTime") = toISOString(Field(r, "startTime"))
                /\ Field(p, "endTime") =
                       IF Field(r, "endTime") = Undefined THEN Undefined
                       ELSE toISOString(Field(r, "endTime"))

\* an unsynced Recording is read back behind a previously stored one
C12_Witness ==
    \E c \in StorageCallers :
        /\ ReadBack(c).op = "save"
        /\ Len(storage[c].ret) = 2
        /\ Field(ReadBack(c).arg, "synced") = Bool(FALSE)
        /\ Field(ReadBack(c).arg, "startTime") = Date(5000)
        /\ Field(storage[c].ret[2], "startTime") = Str("T5000Z")

----------------------------------------------------------------------------
(* Claims about the session client, checked under SpecSession *)

\* C13: a request issued after a login that returned success and a token,
\* with no logout since, carries Authorization: Bearer <the token of the
\* last such login>.
C13_BearerAfterLogin ==
    \A i \in DOMAIN sent :
        sent[i].owed # NoToken => sent[i].auth = "Bearer " \o sent[i].owed

\* C15: once loadAuthToken has finished and no AsyncStorage operation is
\* outstanding, the token in memory is the persisted one.
C15_TokenMirrored ==
    (nativeQueue = <<>> /\ loadPc = "done") => authToken = persisted

----------------------------------------------------------------------------
(* Claims about logging in and out, checked under SpecScreens *)

\* C14: once a handleLogout that followed a handleLogin has completed, and
\* until a login sets a token again, the client LoginScreen logged in with
\* holds no token.
C14_TokenClearedOnLogout == loggedOut => token = NoToken

\* C16: when loadApiLocations and handleLogin have both finished and
\* handleLogin succeeded with a token, the client holds that token.
C16_UserTokenHeld ==
    (screen = "recording" /\ bgPc = "done" /\ userPc = "idle"
        /\ userToken # NoToken)
    => token = userToken

----------------------------------------------------------------------------
(* Claims about AudioService, checked under SpecAudio *)

\* C17: a startRecording() called while isRecording is true returns null at
\* once: it does not go on to request permissions, creates no platform
\* recording, and leaves this.recording and this.isRecording as they were.
C17_StartWhileRecordingIsNoOp ==
    [][\A c \in AudioCallers :
         (startCalls' # startCalls /\ audioCalls'[c] # audioCalls[c] /\ isRecording)
         => /\ audioCalls'[c].pc = "done"
            /\ audioCalls'[c].ret = "null"
            /\ UNCHANGED <<isRecording, recording, active, created>>]_vars

\* a startRecording() made during a session has returned null, and the
\* session is still there
C17_Witness ==
    \E c \in AudioCallers :
        /\ audioCalls[c].op = "start"
        /\ audioCalls[c].busy
        /\ audioCalls[c].pc = "done"
        /\ audioCalls[c].ret = "null"
        /\ isRecording
        /\ recording = 1
        /\ active = {1}

\* C18: at most one platform recording is created and not yet stopped.
C18_AtMostOneActive == Cardinality(active) <= 1

----------------------------------------------------------------------------
(* Claims about RecordingScreen, checked under SpecRecording *)

\* the Recordings in the stored list
Persisted == ParseStored(stored)

\* C19: every Recording in the stored list has synced = true or an
\* audioFilePath that names an existing local file.
C19_SyncedOrLocalFile ==
    \A i \in DOMAIN Persisted :
        \/ Field(Persisted[i], "synced") = Bool(TRUE)
        \/ Field(Persisted[i], "audioFilePath").v \in files

\* the upload failed, the copy to the documents directory failed too, and
\* the Recording was stored with the recorder's own file
C19_Witness ==
    /\ Len(Persisted) = 1
    /\ Field(Persisted[1], "synced") = Bool(FALSE)
    /\ Field(Persisted[1], "audioFilePath") = Str(getURI(1))
    /\ finalPath(FileName(1)) \notin files
    /\ getURI(1) \in files

----------------------------------------------------------------------------
\* C21: when the microphone permission is refused (requestPermissions gives
\* false, also when the request threw), startRecording is over with null: it
\* has created no platform recording, isRecording and this.recording are
\* unset, the call does not go on or ask again, and RecordingScreen stays not
\* recording and, once its startRecording has returned, has shown the alert.
C21_PermissionDeniedStartsNothing ==
    \A c \in AudioCallers :
        audioCalls[c].perm = "refused" =>
            /\ audioCalls[c].pc = "done"
            /\ audioCalls[c].ret = "null"
            /\ audioCalls[c].rec = NoRecording
            /\ ~isRecording
            /\ recording = NoRecording
            /\ ~screenIsRecording
            /\ (c = "contact" /\ contactPc = "idle" => alert = StartFailedAlert)

\* the contact button was pressed, the permission was refused and the
\* screen's startRecording has returned
C21_Witness ==
    /\ audioCalls["contact"].op = "start"
    /\ audioCalls["contact"].perm = "refused"
    /\ contactPc = "idle"
    /\ ~isLoading
    /\ alert = StartFailedAlert
    /\ created = 0

----------------------------------------------------------------------------
\* C22: uploads are not made in parallel: at most one uploadRecording
\* request is in flight at any time.
C22_OneUploadInFlight == Cardinality(uploads) <= 1


----------------------------------------------------------------------------
\* how an uploadAudio that has ended came to its end
EndedBySuccess ==
    /\ pc = "returned"
    /\ LastEvent.ev = "uploadResp"
    /\ IsSuccessStatus(LastEvent.num)
    /\ JSONparse(LastEvent.text).ok

EndedByLoginFailure ==
    /\ pc = "returned"
    /\ LastEvent.ev = "loginResp"
    /\ LoginFailed(LastEvent)

EndedByExhaustion ==
    /\ pc = "thrown"
    /\ LastEvent.ev = "fail"
    /\ LastEvent.n = 3
    /\ Count("fail") = 3

\* C23: when every network call and every backoff timer completes, an
\* uploadAudio that was started ends, returning or throwing; it ends only
\* with an upload that succeeded, with the failure of the implicit login, or
\* with the failure of the third attempt, and until then it is always waiting
\* for a call or a timer of its own.
C23_UploadEndsOnlyByOutcome ==
    /\ [](Ended => (EndedBySuccess \/ EndedByLoginFailure \/ EndedByExhaustion))
    /\ [](pc \in {"idle", "login", "probe", "upload", "delay", "returned", "thrown"})
    /\ (pc # "idle") ~> Ended

\* an uploadAudio that ended with the success of its second attempt
C23_Witness ==
    /\ EndedBySuccess
    /\ Count("attempt") = 2
    /\ Count("delay") = 1
    /\ heldAtCall

----------------------------------------------------------------------------
\* C24: with saveRecording calls only, in any number and overlap and
\* whatever AsyncStorage does, no step takes a record out of the stored list
\* or changes it: every record that was stored is still stored, unchanged,
\* after the step.
C24_ListIsAppendOnly ==
    [][\A i \in DOMAIN ParseStored(stored) :
          \E j \in DOMAIN ParseStored(stored') :
             ParseStored(stored')[j] = ParseStored(stored)[i]]_vars

----------------------------------------------------------------------------
\* getIsRecording()
getIsRecording == isRecording

\* C25: whenever no contact-button operation is in progress on the screen
\* (isLoading and isUploading are false) and no logout has been confirmed,
\* the screen's isRecording equals AudioService.getIsRecording().
C25_ScreenMatchesService ==
    (logoutPc = "idle" /\ ~isLoading /\ ~isUploading)
        => (screenIsRecording = getIsRecording)

----------------------------------------------------------------------------
\* C26: once the confirm handler of handleLogout is past its stop of the
\* recording, the screen's AudioService is not recording and no platform
\* recording is left unstopped.
C26_NothingActiveAfterLogout ==
    logoutPc = "out" => (~isRecording /\ active = {})

----------------------------------------------------------------------------
\* C27: when every awaited call completes, a press taken by
\* handleContactButton (isLoading is set) is followed by a state where
\* isLoading and isUploading are both false.
C27_ButtonEnabledAgain ==
    isLoading ~> (~isLoading /\ ~isUploading)

\* a press that stopped a session whose upload failed has been handled
C27_Witness ==
    /\ contactPc = "idle"
    /\ ~isLoading
    /\ ~isUploading
    /\ session.done
    /\ session.upload = "failed"
    /\ alert = UploadProblemAlert

----------------------------------------------------------------------------
\* C28: playingId is cleared only by a tap on the recording that is playing,
\* or by the failure or the timer of the playRecording call that set it.
C28_OnlyOwnTimerClears ==
    [][(playingId # "null" /\ playingId' = "null")
          => \/ plays' = plays
             \/ plays'[playingBy].pc # plays[playingBy].pc]_vars

----------------------------------------------------------------------------
\* C29: for a capture session the screen has uploaded, uploadRecording made
\* one request and returned a result (it did not throw): success = true
\* exactly when the status was 200 or 201, whatever the body, and otherwise
\* (another status, or uploadAsync threw) success = false with a message; the
\* screen took the success branch exactly when success was true.
C29_UploadRecordingResult ==
    /\ session.requests <= 1
    /\ session.upload # "none"
         => /\ session.requests = 1
            /\ session.result.kind = "return"
            /\ session.result.success = (session.status \in {200, 201})
            /\ session.result.message # ""
            /\ (session.upload = "ok") = session.result.success

\* a session whose upload was answered 201 with a body that is not JSON
C29_Witness ==
    /\ session.done
    /\ session.upload = "ok"
    /\ session.status = 201
    /\ session.requests = 1
    /\ session.result = Returned(TRUE, "Recording uploaded to the server")

----------------------------------------------------------------------------
\* the step is App's handleLogout
IsAppLogout == logoutsPending' < logoutsPending

\* C30: whenever currentScreen is 'recording' or 'recordings', user and
\* location are both set; handleLogout leaves user = null, location = null
\* and currentScreen = 'login'; and checkExistingAuth leaves the app on the
\* recording screen only if getUser() gave a user with isLoggedIn and
\* getSelectedLocation() gave a location.
C30_ScreensHaveUserAndLocation ==
    /\ [](currentScreen \in {"recording", "recordings"}
            => (user # NoUser /\ location # NoLocation))
    /\ []((checkPc = "done" /\ taps = 0 /\ currentScreen = "recording")
            => (savedUser # NoUser /\ savedUser.isLoggedIn
                  /\ savedLocation # NoLocation))
    /\ [](appIsLoading => currentScreen = "login")
    /\ [][IsAppLogout => (user' = NoUser /\ location' = NoLocation
                            /\ currentScreen' = "login")]_vars

\* the list of recordings is shown to a user after two taps on login or
\* logout, with nothing pending
C30_Witness ==
    /\ currentScreen = "recordings"
    /\ Mounted = "RecordingsListScreen"
    /\ user \in Users
    /\ location \in Locations
    /\ taps = 2
    /\ logoutsPending = 0
    /\ loginsPending = {}
    /\ savedUser # NoUser

====
